---- MODULE Spec2Model ----
(***************************************************************************)
(* Model of terraform/lambda/ecr_postprocessor.py: the Lambda handler that *)
(* records an image push in DynamoDB and announces it on an SNS topic.     *)
(*                                                                         *)
(* Each invocation of lambda_handler is a process with its own locals      *)
(* (event, detail, repo, tag, ts).  The processes share the process        *)
(* environment (os.environ), the wall clock, the DynamoDB table and the    *)
(* SNS topic.  One action per statement of the handler.                    *)
(***************************************************************************)
EXTENDS Integers, Sequences, FiniteSets, TLC

(***************************************************************************)
(* Bounds of the model.  NumCalls invocations are driven by an arbitrary   *)
(* caller (events of any shape, specification Spec); NumInvocations        *)
(* invocations are driven by the push pipeline (events whose fields are    *)
(* strings, specification SpecPush).  The clock has MaxClock + 1 readings. *)
(***************************************************************************)
NumCalls == 1
NumInvocations == 2
MaxClock == 1

Invocations == 1..NumInvocations
Callers == {i \in Invocations : i <= NumCalls}
ClockValues == 0..MaxClock

(***************************************************************************)
(* JSON / Python values.  None is JNull, a str is JStr(s), a dict is       *)
(* JMap(m) where m is the set of its <<key, value>> pairs.                 *)
(***************************************************************************)
JNull == [type |-> "null"]
JStr(s) == [type |-> "str", s |-> s]
JMap(m) == [type |-> "map", m |-> m]
Unset == [type |-> "unset"]

\* dict.get(key, default): the default is used only when the key is missing;
\* a key mapped to None yields None.
HasKey(m, k) == \E p \in m : p[1] = k
Get(m, k, default) == IF HasKey(m, k) THEN (CHOOSE p \in m : p[1] = k)[2] ELSE default

\* str(v) as used by the f-string interpolation.
PyStr(v) == IF v.type = "str" THEN v.s ELSE "None"

(***************************************************************************)
(* Inbound events.                                                         *)
(***************************************************************************)
FieldVals(s) == {JNull, JStr(s)}
Fields(k, s) == {{}} \cup {{<<k, v>>} : v \in FieldVals(s)}
Details == {JMap(r \cup t) : r \in Fields("repository", "app"), t \in Fields("imageTag", "v1.2")}
Events == {{}} \cup {{<<"detail", d>>} : d \in Details \cup {JNull, JStr("x")}}

\* What the pipeline's EventBridge rule delivers: a push with both fields, and
\* a push whose tag was left out.
PushEvents == {{<<"detail", JMap({<<"repository", JStr("app")>>, <<"imageTag", JStr("v1.2")>>})>>},
               {<<"detail", JMap({<<"repository", JStr("app")>>})>>}}

(***************************************************************************)
(* Configuration: os.environ, and the key schema of the table.             *)
(***************************************************************************)
FullEnv == {<<"DDB_TABLE", "ecr-push-log">>, <<"SNS_ARN", "arn:aws:sns:push-topic">>}
Environments == SUBSET FullEnv

\* The table is created by the Terraform configuration.  A DynamoDB primary
\* key is a partition attribute, optionally with a sort attribute; put_item
\* succeeds only when the item has them, so they are among its attributes.
AttrNames == {"imageTag", "repository", "timestamp"}
KeySchemas == {k \in SUBSET AttrNames : Cardinality(k) \in {1, 2}}

(***************************************************************************)
(* datetime.utcnow().isoformat(): a clock reading counts half seconds; the *)
(* fraction is printed with six digits and omitted when it is zero; no     *)
(* timezone designator is appended.  utcnow() is the wall clock: nothing   *)
(* orders the readings of different invocations.                           *)
(***************************************************************************)
TwoDigits(n) == IF n < 10 THEN "0" \o ToString(n) ELSE ToString(n)
isoformat(t) ==
    LET sec == t \div 2
        usec == (t % 2) * 500000
    IN "2026-01-01T00:00:" \o TwoDigits(sec)
         \o (IF usec = 0 THEN "" ELSE "." \o ToString(usec))

VARIABLES env, keySchema, inv, store, topic

vars == <<env, keySchema, inv, store, topic>>

\* env: os.environ of the function.  keySchema: the primary-key attributes of
\* the table.  inv[i]: the locals of invocation i, its position (pc), the
\* calls it has made (effects), the item its put_item stored, the exception
\* it raised and the value it returned.  store: the items of the table.
\* topic: the messages published, in order.
NoItem == [type |-> "none"]
StatusOk == JMap({<<"status", JStr("ok")>>})

IdleInv == [pc |-> "idle", event |-> {}, repo |-> Unset, tag |-> Unset,
            clock |-> -1, ts |-> "", item |-> NoItem, error |-> "",
            effects |-> <<>>, ret |-> Unset, retryOf |-> {}]

Init ==
    /\ env \in Environments
    /\ keySchema \in KeySchemas
    /\ inv = [i \in Invocations |-> IdleInv]
    /\ store = {}
    /\ topic = <<>>

\* Variant: the exception is caught and the handler carries on to its return.
RaiseSwallowed(i, err) == [inv EXCEPT ![i].pc = "published", ![i].error = err]
\* An exception nothing catches: the invocation ends, no value is returned.
Raise(i, err) == [inv EXCEPT ![i].pc = "failed", ![i].error = err]

\* Variant: os.environ.get(name), which never raises.
EnvMissingIgnored(name) == FALSE
\* os.environ[name] raises KeyError when the variable is not set.
EnvMissing(name) == ~HasKey(env, name)

\* Lines 7-8: the runtime calls lambda_handler(event, context); the event is
\* printed.  retryOf records which failed invocations carried the same event.
Invoke(i, e) ==
    /\ inv[i].pc = "idle"
    /\ inv' = [inv EXCEPT ![i].pc = "logged", ![i].event = e,
                          ![i].effects = Append(@, "log"),
                          ![i].retryOf = {j \in Invocations :
                                            inv[j].pc = "failed" /\ inv[j].event = e}]
    /\ UNCHANGED <<env, keySchema, store, topic>>

\* Lines 11-13: detail = event.get('detail', {});
\* repo = detail.get('repository', 'unknown');
\* tag = detail.get('imageTag', 'unknown').  A detail that is not a dict has
\* no attribute 'get'.
DetailOf(e) == Get(e, "detail", JMap({}))
ExtractedRepo(d) == Get(d.m, "repository", JStr("unknown"))
\* Variant: another placeholder for a missing tag.
ExtractedTagLatest(d) == Get(d.m, "imageTag", JStr("latest"))
ExtractedTag(d) == Get(d.m, "imageTag", JStr("unknown"))
Extract(i) ==
    /\ inv[i].pc = "logged"
    /\ LET detail == DetailOf(inv[i].event)
       IN IF detail.type = "map"
          THEN inv' = [inv EXCEPT ![i].pc = "extracted",
                                  ![i].repo = ExtractedRepo(detail),
                                  ![i].tag = ExtractedTag(detail)]
          ELSE inv' = Raise(i, "AttributeError")
    /\ UNCHANGED <<env, keySchema, store, topic>>

\* Line 15: ts = datetime.utcnow().isoformat()
ReadClock(i, t) ==
    /\ inv[i].pc = "extracted"
    /\ inv' = [inv EXCEPT ![i].pc = "stamped", ![i].clock = t, ![i].ts = isoformat(t)]
    /\ UNCHANGED <<env, keySchema, store, topic>>

\* DynamoDB PutItem: creates the item, or replaces the item that has the same
\* primary key.
KeyOf(item) == [a \in keySchema |-> item[a]]
\* Variant: a write that is skipped when the push is already recorded.
PutIfNewPush(table, item) ==
    IF \E r \in table : r.repository = item.repository /\ r.imageTag = item.imageTag
    THEN table
    ELSE {r \in table : KeyOf(r) # KeyOf(item)} \cup {item}
Put(table, item) == {r \in table : KeyOf(r) # KeyOf(item)} \cup {item}

\* Lines 18-25: ddb.put_item(TableName=os.environ['DDB_TABLE'], Item={...}).
\* The arguments are evaluated first (KeyError for a missing variable), then
\* the client validates that every 'S' value is a str, then the service is
\* called and may fail.
\* Variant: repo and tag kept in module-level variables shared by invocations.
StrOwner(i) == CHOOSE j \in Invocations : inv[j].tag.type = "str" /\ inv[j].repo.type = "str"
ItemOfShared(i) == [imageTag |-> inv[StrOwner(i)].tag.s,
                    repository |-> inv[StrOwner(i)].repo.s,
                    timestamp |-> inv[i].ts]
ItemOf(i) == [imageTag |-> inv[i].tag.s, repository |-> inv[i].repo.s,
              timestamp |-> inv[i].ts]
PutItem(i) ==
    /\ inv[i].pc = "stamped"
    /\ IF EnvMissing("DDB_TABLE")
       THEN inv' = Raise(i, "KeyError") /\ store' = store
       ELSE IF inv[i].tag.type # "str" \/ inv[i].repo.type # "str"
       THEN inv' = Raise(i, "ParamValidationError") /\ store' = store
       ELSE \E ok \in BOOLEAN :
              IF ok
              THEN /\ store' = Put(store, ItemOf(i))
                   /\ inv' = [inv EXCEPT ![i].pc = "written",
                                         ![i].item = ItemOf(i),
                                         ![i].effects = Append(@, "put_item")]
              ELSE inv' = Raise(i, "ClientError") /\ store' = store
    /\ UNCHANGED <<env, keySchema, topic>>

\* Lines 28-32: sns.publish(TopicArn=os.environ['SNS_ARN'], Message=f"...",
\* Subject="ECR Image Push Notification").  The call is reached only after
\* put_item has returned; its failure leaves the table as it is.
Subject == "ECR Image Push Notification"
\* Variant: tag and repository interpolated in the other order.
MessageSwapped(i) == "Image pushed: " \o PyStr(inv[i].tag) \o ":" \o PyStr(inv[i].repo)
                       \o " at " \o inv[i].ts
Message(i) == "Image pushed: " \o PyStr(inv[i].repo) \o ":" \o PyStr(inv[i].tag)
                \o " at " \o inv[i].ts
Notification(i) == [by |-> i, TopicArn |-> Get(env, "SNS_ARN", ""),
                    Subject |-> Subject, Message |-> Message(i)]
\* Variant: the publish placed before the store write.
ReachesPublishEarly(i) == inv[i].pc \in {"stamped", "written"}
ReachesPublish(i) == inv[i].pc = "written"
\* Variant: the message sent twice.
PublishedTwice(i) ==
    /\ topic' = Append(Append(topic, Notification(i)), Notification(i))
    /\ inv' = [inv EXCEPT ![i].pc = "published", ![i].effects = Append(@, "publish")]
    /\ store' = store
Published(i) ==
    /\ topic' = Append(topic, Notification(i))
    /\ inv' = [inv EXCEPT ![i].pc = "published", ![i].effects = Append(@, "publish")]
    /\ store' = store
\* Variant: a failed publish that deletes the record just written.
PublishFailedRollback(i, err) ==
    /\ inv' = Raise(i, err)
    /\ topic' = topic
    /\ store' = store \ {inv[i].item}
PublishFailed(i, err) ==
    /\ inv' = Raise(i, err)
    /\ topic' = topic
    /\ store' = store
Publish(i) ==
    /\ ReachesPublish(i)
    /\ IF EnvMissing("SNS_ARN")
       THEN PublishFailed(i, "KeyError")
       ELSE \E ok \in BOOLEAN :
              IF ok THEN Published(i) ELSE PublishFailed(i, "ClientError")
    /\ UNCHANGED <<env, keySchema>>

\* Line 34: return {'status': 'ok'}
Return(i) ==
    /\ inv[i].pc = "published"
    /\ inv' = [inv EXCEPT ![i].pc = "returned", ![i].ret = StatusOk]
    /\ UNCHANGED <<env, keySchema, store, topic>>

Step(i) ==
    \/ Extract(i)
    \/ \E t \in ClockValues : ReadClock(i, t)
    \/ PutItem(i)
    \/ Publish(i)
    \/ Return(i)

\* The handler called with events of any shape.
Next ==
    \/ \E i \in Callers, e \in Events : Invoke(i, e)
    \/ \E i \in Invocations : Step(i)

Spec == Init /\ [][Next]_vars

\* The handler called concurrently with the events of the push pipeline.
NextPush ==
    \/ \E i \in Invocations, e \in PushEvents : Invoke(i, e)
    \/ \E i \in Invocations : Step(i)

SpecPush == Init /\ [][NextPush]_vars

(***************************************************************************)
(* Vocabulary of the properties.                                           *)
(***************************************************************************)
Wrote(i) == inv[i].item # NoItem
MsgsBy(i) == {k \in 1..Len(topic) : topic[k].by = i}
HandlerEffects == <<"log", "put_item", "publish">>
IsPrefix(s, t) == Len(s) <= Len(t) /\ \A k \in 1..Len(s) : s[k] = t[k]

\* The value the event supplies for detail.<k>, read off the event itself.
DetailMaps(e) == {p[2] : p \in {q \in e : q[1] = "detail" /\ q[2].type = "map"}}
Supplied(e, k) == {q[2] : q \in {r \in UNION {d.m : d \in DetailMaps(e)} : r[1] = k}}
Expected(e, k) == IF Supplied(e, k) = {} THEN {JStr("unknown")} ELSE Supplied(e, k)

\* An event of the documented shape: detail absent or a mapping whose fields
\* are absent or strings.
Documented(e) ==
    /\ \A p \in e : p[1] = "detail" => p[2].type = "map"
    /\ \A k \in {"repository", "imageTag"} : \A v \in Supplied(e, k) : v.type = "str"

OnlyRepository == {<<"detail", JMap({<<"repository", JStr("app")>>})>>}
FullPush == {<<"detail", JMap({<<"repository", JStr("app")>>, <<"imageTag", JStr("v1.2")>>})>>}

\* C1: the record an invocation writes carries detail.repository and
\* detail.imageTag where the event has the key and "unknown" where it has not,
\* each field on its own; an event of the documented shape never fails before
\* the store write for a reason other than the configuration or the service.
C1_RecordFields ==
    \A i \in Invocations :
        /\ Wrote(i) => /\ JStr(inv[i].item.repository) \in Expected(inv[i].event, "repository")
                       /\ JStr(inv[i].item.imageTag) \in Expected(inv[i].event, "imageTag")
        /\ (Documented(inv[i].event) /\ inv[i].pc = "failed")
              => inv[i].error \in {"KeyError", "ClientError"}

C1_Witness ==
    \E i \in Invocations :
        /\ inv[i].event = OnlyRepository
        /\ Wrote(i)
        /\ inv[i].item.repository = "app"
        /\ inv[i].item.imageTag = "unknown"

\* C2: whatever the shape of the event, no invocation fails because of its
\* input, and a field whose key is missing or whose value is null has been
\* replaced by "unknown" once the fields are extracted.
C2_AnyShapeTolerated ==
    \A i \in Invocations :
        /\ inv[i].pc = "failed" => inv[i].error \in {"KeyError", "ClientError"}
        /\ inv[i].pc \in {"extracted", "stamped", "written", "published", "returned"}
              => inv[i].repo.type = "str" /\ inv[i].tag.type = "str"

\* C3: {"status": "ok"} is returned exactly by the invocations whose put_item
\* and publish both succeeded; an invocation that failed returned nothing and
\* did not complete both calls.
C3_ReturnIffBothSucceeded ==
    \A i \in Invocations :
        /\ inv[i].ret \in {Unset, StatusOk}
        /\ inv[i].ret = StatusOk <=> inv[i].pc = "returned"
        /\ inv[i].pc = "returned" => Wrote(i) /\ MsgsBy(i) # {}
        /\ inv[i].pc = "failed" => /\ inv[i].ret = Unset
                                   /\ inv[i].error # ""
                                   /\ ~(Wrote(i) /\ MsgsBy(i) # {})
        /\ (Wrote(i) /\ MsgsBy(i) # {}) => inv[i].pc \in {"published", "returned"}

C3_Witness ==
    \E i \in Invocations :
        inv[i].pc = "returned" /\ inv[i].ret = StatusOk /\ Wrote(i) /\ MsgsBy(i) # {}

C5_MessageMatchesRecord ==
    \A k \in 1..Len(topic) :
        LET i == topic[k].by
        IN /\ Wrote(i)
           /\ topic[k].Subject = "ECR Image Push Notification"
           /\ topic[k].Message = "Image pushed: " \o inv[i].item.repository \o ":"
                                    \o inv[i].item.imageTag \o " at "
                                    \o inv[i].item.timestamp

C5_Witness ==
    \E k \in 1..Len(topic) :
        /\ inv[topic[k].by].event = FullPush
        /\ topic[k].Message = "Image pushed: app:v1.2 at 2026-01-01T00:00:00.500000"
        /\ inv[topic[k].by].item = [imageTag |-> "v1.2", repository |-> "app",
                                    timestamp |-> "2026-01-01T00:00:00.500000"]

\* C8: with DDB_TABLE unset no invocation gets past the store write: nothing
\* is written or published, nothing is returned, and the invocation that
\* reached the write ended with the KeyError; with SNS_ARN unset no invocation
\* gets past the publish: nothing is published or returned, and the
\* invocation that reached the publish ended with the KeyError.
C8_MissingConfigFails ==
    \A i \in Invocations :
        /\ ~HasKey(env, "DDB_TABLE") =>
              /\ inv[i].pc \in {"idle", "logged", "extracted", "stamped", "failed"}
              /\ ~Wrote(i) /\ store = {} /\ topic = <<>> /\ inv[i].ret = Unset
              /\ (inv[i].pc = "failed" /\ inv[i].clock >= 0) => inv[i].error = "KeyError"
        /\ ~HasKey(env, "SNS_ARN") =>
              /\ inv[i].pc \in {"idle", "logged", "extracted", "stamped", "written", "failed"}
              /\ topic = <<>> /\ inv[i].ret = Unset
              /\ (inv[i].pc = "failed" /\ Wrote(i)) => inv[i].error = "KeyError"

C8_Witness ==
    \E i \in Invocations :
        /\ ~HasKey(env, "SNS_ARN")
        /\ Wrote(i)
        /\ inv[i].pc = "failed"
        /\ inv[i].error = "KeyError"

(***************************************************************************)
(* Properties of concurrent invocations (specification SpecPush).          *)
(***************************************************************************)
Writers == {i \in Invocations : Wrote(i)}
Publishers == {i \in Invocations : inv[i].pc \in {"published", "returned"}}
WrittenKeys == {KeyOf(inv[i].item) : i \in Writers}

ExpectedStr(e, k) == (CHOOSE v \in Expected(e, k) : TRUE).s
OwnFields == [e \in {d \in Events : Documented(d)} |->
                [imageTag |-> ExpectedStr(e, "imageTag"),
                 repository |-> ExpectedStr(e, "repository")]]
OwnRecord(i) == [imageTag |-> OwnFields[inv[i].event].imageTag,
                 repository |-> OwnFields[inv[i].event].repository,
                 timestamp |-> isoformat(inv[i].clock)]
MessageFor(rec) == "Image pushed: " \o rec.repository \o ":" \o rec.imageTag
                     \o " at " \o rec.timestamp

\* C7: under every interleaving, the record an invocation wrote and the
\* notification it published are functions of its own event and its own clock
\* reading, and it returns the fixed status or nothing; no other invocation's
\* event or clock reading enters them.
C7_InvocationsIndependent ==
    \A i \in Invocations :
        /\ inv[i].ret \in {Unset, StatusOk}
        /\ Wrote(i) =>
              LET own == OwnRecord(i)
              IN /\ inv[i].item = own
                 /\ \A k \in MsgsBy(i) : /\ topic[k].Message = MessageFor(own)
                                         /\ topic[k].Subject = Subject
        /\ ~Wrote(i) => MsgsBy(i) = {}

C7_Witness ==
    /\ Len(topic) = 2
    /\ topic[1].by = 2 /\ topic[2].by = 1
    /\ inv[1].event # inv[2].event
    /\ inv[1].clock # inv[2].clock
    /\ inv[1].pc = "returned" /\ inv[2].pc = "returned"

\* C9: every notification on the topic comes from an invocation whose
\* put_item had already succeeded and names the record that invocation wrote;
\* an invocation that wrote nothing published nothing; there are never more
\* notifications than successful writes.
C9_PublishOnlyAfterWrite ==
    /\ \A k \in 1..Len(topic) :
          LET i == topic[k].by
          IN /\ Wrote(i)
             /\ inv[i].effects = HandlerEffects
             /\ topic[k].Message = "Image pushed: " \o inv[i].item.repository \o ":"
                                      \o inv[i].item.imageTag \o " at "
                                      \o inv[i].item.timestamp
    /\ \A i \in Invocations : ~Wrote(i) => MsgsBy(i) = {}
    /\ Len(topic) <= Cardinality(Writers)

C9_Witness ==
    \E i, j \in Invocations :
        /\ inv[i].pc = "failed" /\ inv[i].clock >= 0 /\ ~Wrote(i)
        /\ MsgsBy(i) = {}
        /\ inv[j].pc = "returned" /\ MsgsBy(j) # {}

\* <<j, i>>: invocation j wrote its record and failed in publish, invocation i
\* was started afterwards with the same event and returned.
RetryPairs ==
    {p \in Invocations \X Invocations :
        /\ p[1] \in inv[p[2]].retryOf
        /\ inv[p[1]].pc = "failed" /\ Wrote(p[1])
        /\ inv[p[2]].pc = "returned"}
RecordsOfPush(item) ==
    {r \in store : r.repository = item.repository /\ r.imageTag = item.imageTag}

====
